---- MODULE Spec2Model ----
(***************************************************************************)
(* Model of src/migrate.rs: the contract-version record kept under the     *)
(* storage key "contract_info" and the three operations on it,             *)
(* get_contract_version, set_contract_version and                          *)
(* ensure_from_older_version.  Strings that the code parses (version       *)
(* strings) are sequences of one-character strings, so that parsing,       *)
(* ordering and printing of versions are computed and not assumed.         *)
(* Version is semver::Version of the semver 1.x crate, whose diagnostics   *)
(* ("unexpected character 'a' ...") the tests of migrate.rs rely on.       *)
(***************************************************************************)
EXTENDS Integers, Sequences, FiniteSets

\* ------------------------------------------------------------------------
\* Bounds of the model
\* ------------------------------------------------------------------------
\* patch numbers of the generated version strings range over 0..MaxPatch
MaxPatch == 1

\* ------------------------------------------------------------------------
\* Characters
\* ------------------------------------------------------------------------
DigitSeq == <<"0", "1", "2", "3", "4", "5", "6", "7", "8", "9">>

IsDigit(c) == \E i \in 1..10 : DigitSeq[i] = c

DigitVal(c) == (CHOOSE i \in 1..10 : DigitSeq[i] = c) - 1

IsLetterOrHyphen(c) == c \in {"a", "b", "-"}

\* ASCII code of the characters used in the model
ByteOf(c) ==
  IF IsDigit(c) THEN 48 + DigitVal(c)
  ELSE IF c = "-" THEN 45
  ELSE IF c = "." THEN 46
  ELSE IF c = "+" THEN 43
  ELSE IF c = "a" THEN 97
  ELSE IF c = "b" THEN 98
  ELSE 32

Drop(s, k) == SubSeq(s, k + 1, Len(s))

\* byte-wise lexicographic comparison of two strings: -1, 0 or 1
RECURSIVE StrCmp(_, _)
StrCmp(s, t) ==
  IF s = <<>> /\ t = <<>> THEN 0
  ELSE IF s = <<>> THEN -1
  ELSE IF t = <<>> THEN 1
  ELSE IF ByteOf(s[1]) < ByteOf(t[1]) THEN -1
  ELSE IF ByteOf(s[1]) > ByteOf(t[1]) THEN 1
  ELSE StrCmp(Tail(s), Tail(t))

IntCmp(a, b) == IF a < b THEN -1 ELSE IF a > b THEN 1 ELSE 0

\* Ordering::then_with
ThenWith(o, p) == IF o # 0 THEN o ELSE p

\* str::split('.'): the dot-separated segments of a string
RECURSIVE SplitDots(_, _)
SplitDots(s, cur) ==
  IF s = <<>> THEN <<cur>>
  ELSE IF s[1] = "." THEN <<cur>> \o SplitDots(Tail(s), <<>>)
  ELSE SplitDots(Tail(s), Append(cur, s[1]))

AllDigits(s) == \A i \in 1..Len(s) : IsDigit(s[i])

RECURSIVE TrimZeros(_)
TrimZeros(s) == IF s # <<>> /\ s[1] = "0" THEN TrimZeros(Tail(s)) ELSE s

\* ------------------------------------------------------------------------
\* semver::Version : parsing (FromStr)
\* ------------------------------------------------------------------------
NoVersion == [major |-> 0, minor |-> 0, patch |-> 0, pre |-> <<>>, build |-> <<>>]

NoError == [kind |-> "None", pos |-> "None", ch |-> ""]

SemverError(kind, pos, ch) == [kind |-> kind, pos |-> pos, ch |-> ch]

\* numeric_identifier: a run of digits without a leading zero
RECURSIVE NumericLoop(_, _, _, _)
NumericLoop(input, pos, len, value) ==
  IF len < Len(input) /\ IsDigit(input[len + 1])
  THEN IF value = 0 /\ len > 0
       THEN [ok |-> FALSE, value |-> 0, rest |-> <<>>,
             err |-> SemverError("LeadingZero", pos, "")]
       ELSE NumericLoop(input, pos, len + 1, value * 10 + DigitVal(input[len + 1]))
  ELSE IF len > 0
       THEN [ok |-> TRUE, value |-> value, rest |-> Drop(input, len), err |-> NoError]
       ELSE IF Len(input) > 0
            THEN [ok |-> FALSE, value |-> 0, rest |-> <<>>,
                  err |-> SemverError("UnexpectedChar", pos, input[1])]
            ELSE [ok |-> FALSE, value |-> 0, rest |-> <<>>,
                  err |-> SemverError("UnexpectedEnd", pos, "")]

NumericIdentifier(input, pos) == NumericLoop(input, pos, 0, 0)

\* dot: the separator after the major and the minor number
Dot(input, pos) ==
  IF input # <<>> /\ input[1] = "."
  THEN [ok |-> TRUE, rest |-> Tail(input), err |-> NoError]
  ELSE IF input # <<>>
       THEN [ok |-> FALSE, rest |-> <<>>,
             err |-> SemverError("UnexpectedCharAfter", pos, input[1])]
       ELSE [ok |-> FALSE, rest |-> <<>>, err |-> SemverError("UnexpectedEnd", pos, "")]

\* identifier: the dot-separated pre-release or build identifiers
RECURSIVE IdentifierLoop(_, _, _, _, _)
IdentifierLoop(input, pos, acc, seg, nondigit) ==
  LET i == acc + seg + 1
      atEnd == i > Len(input)
      isDot == ~atEnd /\ input[i] = "."
  IN IF ~atEnd /\ IsLetterOrHyphen(input[i])
     THEN IdentifierLoop(input, pos, acc, seg + 1, TRUE)
     ELSE IF ~atEnd /\ IsDigit(input[i])
     THEN IdentifierLoop(input, pos, acc, seg + 1, nondigit)
     ELSE IF seg = 0
          THEN IF acc = 0 /\ ~isDot
               THEN [ok |-> TRUE, ident |-> <<>>, rest |-> input, err |-> NoError]
               ELSE [ok |-> FALSE, ident |-> <<>>, rest |-> <<>>,
                     err |-> SemverError("EmptySegment", pos, "")]
          ELSE IF pos = "Pre" /\ seg > 1 /\ ~nondigit /\ input[acc + 1] = "0"
          THEN [ok |-> FALSE, ident |-> <<>>, rest |-> <<>>,
                err |-> SemverError("LeadingZero", pos, "")]
          ELSE IF isDot
          THEN IdentifierLoop(input, pos, acc + seg + 1, 0, FALSE)
          ELSE [ok |-> TRUE, ident |-> SubSeq(input, 1, acc + seg),
                rest |-> Drop(input, acc + seg), err |-> NoError]

Identifier(input, pos) == IdentifierLoop(input, pos, 0, 0, FALSE)

ParseFail(err) == [ok |-> FALSE, v |-> NoVersion, err |-> err]

ParseOk(major, minor, patch, pre, build) ==
  [ok |-> TRUE,
   v |-> [major |-> major, minor |-> minor, patch |-> patch, pre |-> pre, build |-> build],
   err |-> NoError]

\* the optional "+build" suffix and the check that nothing follows it
ParseBuild(major, minor, patch, pre, text, pos) ==
  IF text # <<>> /\ text[1] = "+"
  THEN LET b == Identifier(Tail(text), "Build")
       IN IF ~b.ok THEN ParseFail(b.err)
          ELSE IF b.ident = <<>> THEN ParseFail(SemverError("EmptySegment", "Build", ""))
          ELSE IF b.rest # <<>>
               THEN ParseFail(SemverError("UnexpectedCharAfter", "Build", b.rest[1]))
               ELSE ParseOk(major, minor, patch, pre, b.ident)
  ELSE IF text # <<>>
       THEN ParseFail(SemverError("UnexpectedCharAfter", pos, text[1]))
       ELSE ParseOk(major, minor, patch, pre, <<>>)

\* the optional "-pre" suffix
ParsePre(major, minor, patch, text) ==
  IF text = <<>> THEN ParseOk(major, minor, patch, <<>>, <<>>)
  ELSE IF text[1] = "-"
  THEN LET p == Identifier(Tail(text), "Pre")
       IN IF ~p.ok THEN ParseFail(p.err)
          ELSE IF p.ident = <<>> THEN ParseFail(SemverError("EmptySegment", "Pre", ""))
          ELSE ParseBuild(major, minor, patch, p.ident, p.rest, "Pre")
  ELSE ParseBuild(major, minor, patch, <<>>, text, "Patch")

\* <Version as FromStr>::from_str
Parse(text) ==
  IF text = <<>> THEN ParseFail(SemverError("Empty", "None", ""))
  ELSE
  LET ma == NumericIdentifier(text, "Major") IN
  IF ~ma.ok THEN ParseFail(ma.err) ELSE
  LET d1 == Dot(ma.rest, "Major") IN
  IF ~d1.ok THEN ParseFail(d1.err) ELSE
  LET mi == NumericIdentifier(d1.rest, "Minor") IN
  IF ~mi.ok THEN ParseFail(mi.err) ELSE
  LET d2 == Dot(mi.rest, "Minor") IN
  IF ~d2.ok THEN ParseFail(d2.err) ELSE
  LET pa == NumericIdentifier(d2.rest, "Patch") IN
  IF ~pa.ok THEN ParseFail(pa.err) ELSE
  ParsePre(ma.value, mi.value, pa.value, pa.rest)

\* ------------------------------------------------------------------------
\* semver::Version : printing (Display)
\* ------------------------------------------------------------------------
RECURSIVE Digits(_)
Digits(n) == IF n < 10 THEN <<DigitSeq[n + 1]>>
             ELSE Digits(n \div 10) \o <<DigitSeq[(n % 10) + 1]>>

VersionToString(v) ==
  Digits(v.major) \o <<".">> \o Digits(v.minor) \o <<".">> \o Digits(v.patch)
    \o (IF v.pre = <<>> THEN <<>> ELSE <<"-">> \o v.pre)
    \o (IF v.build = <<>> THEN <<>> ELSE <<"+">> \o v.build)

\* ------------------------------------------------------------------------
\* semver::Version : ordering (Ord)
\* ------------------------------------------------------------------------
\* one pre-release identifier against another
PreIdentCmp(l, r) ==
  IF AllDigits(l) /\ AllDigits(r) THEN ThenWith(IntCmp(Len(l), Len(r)), StrCmp(l, r))
  ELSE IF AllDigits(l) THEN -1
  ELSE IF AllDigits(r) THEN 1
  ELSE StrCmp(l, r)

\* one build identifier against another (leading zeros are allowed here)
BuildIdentCmp(l, r) ==
  IF AllDigits(l) /\ AllDigits(r)
  THEN LET lv == TrimZeros(l)
           rv == TrimZeros(r)
       IN ThenWith(IntCmp(Len(lv), Len(rv)),
                   ThenWith(StrCmp(lv, rv), IntCmp(Len(l), Len(r))))
  ELSE IF AllDigits(l) THEN -1
  ELSE IF AllDigits(r) THEN 1
  ELSE StrCmp(l, r)

RECURSIVE PreSegsCmp(_, _)
PreSegsCmp(ls, rs) ==
  IF ls = <<>> THEN (IF rs = <<>> THEN 0 ELSE -1)
  ELSE IF rs = <<>> THEN 1
  ELSE ThenWith(PreIdentCmp(ls[1], rs[1]), PreSegsCmp(Tail(ls), Tail(rs)))

RECURSIVE BuildSegsCmp(_, _)
BuildSegsCmp(ls, rs) ==
  IF ls = <<>> THEN (IF rs = <<>> THEN 0 ELSE -1)
  ELSE IF rs = <<>> THEN 1
  ELSE ThenWith(BuildIdentCmp(ls[1], rs[1]), BuildSegsCmp(Tail(ls), Tail(rs)))

\* <Prerelease as Ord>::cmp: a release is above each of its pre-releases
PrereleaseCmp(l, r) ==
  IF l = <<>> /\ r = <<>> THEN 0
  ELSE IF l = <<>> THEN 1
  ELSE IF r = <<>> THEN -1
  ELSE PreSegsCmp(SplitDots(l, <<>>), SplitDots(r, <<>>))

\* <BuildMetadata as Ord>::cmp
BuildMetadataCmp(l, r) == BuildSegsCmp(SplitDots(l, <<>>), SplitDots(r, <<>>))

\* Version::cmp_precedence: major, minor, patch, pre-release; build ignored
PrecedenceCmp(a, b) ==
  ThenWith(IntCmp(a.major, b.major),
  ThenWith(IntCmp(a.minor, b.minor),
  ThenWith(IntCmp(a.patch, b.patch), PrereleaseCmp(a.pre, b.pre))))

\* <Version as Ord>::cmp (derived): the fields in order, build metadata last
VersionCmp(a, b) == ThenWith(PrecedenceCmp(a, b), BuildMetadataCmp(a.build, b.build))

\* ------------------------------------------------------------------------
\* Results (StdResult) and the stored record
\* ------------------------------------------------------------------------
NoRecord == [contract |-> "", version |-> <<>>]

NoNames == [stored |-> "", expected |-> ""]

NoVersions == [stored |-> <<>>, new |-> <<>>]

StdResult(kind, ver, rec, names, versions, diag) ==
  [kind |-> kind, ver |-> ver, rec |-> rec, names |-> names,
   versions |-> versions, diag |-> diag]

Ok(ver, rec) == StdResult("Ok", ver, rec, NoNames, NoVersions, NoError)

\* StdError::NotFound, raised by Item::load on an empty slot
NotFound == StdResult("NotFound", NoVersion, NoRecord, NoNames, NoVersions, NoError)

\* StdError::generic_err("Semver: {err}")
from_semver(err) ==
  StdResult("InvalidVersion", NoVersion, NoRecord, NoNames, NoVersions, err)

\* StdError::generic_err("Cannot migrate from {stored.contract} to {name}")
NameMismatchErr(contract, name) ==
  StdResult("NameMismatch", NoVersion, NoRecord,
            [stored |-> contract, expected |-> name], NoVersions, NoError)

\* StdError::generic_err("Cannot migrate from newer version ({}) to older ({})")
DowngradeErr(stored_version, new_version) ==
  StdResult("DowngradeRejected", NoVersion, NoRecord, NoNames,
            [stored |-> stored_version, new |-> new_version], NoError)

\* ------------------------------------------------------------------------
\* CONTRACT : Item<ContractVersion> under the key "contract_info"
\* The slot holds the serialized record, a list of (field, value) pairs in
\* the order of the struct's fields; the empty list is the empty slot.
\* ------------------------------------------------------------------------
EmptySlot == <<>>

\* Item::save: serialize the struct, fields in declaration order
Save(val) == << <<"contract", val.contract>>, <<"version", val.version>> >>

FieldOf(data, key) == data[CHOOSE i \in 1..Len(data) : data[i][1] = key][2]

\* Item::load: NotFound on the empty slot, else the record read by field name
Load(store) ==
  IF store = EmptySlot THEN NotFound
  ELSE Ok(NoVersion, [contract |-> FieldOf(store, "contract"),
                      version |-> FieldOf(store, "version")])

\* ------------------------------------------------------------------------
\* The operations of migrate.rs
\* ------------------------------------------------------------------------
\* variant: an empty slot read as a default record (may_load + unwrap_or_default)
get_contract_version_or_default(store) ==
  IF store = EmptySlot THEN Ok(NoVersion, NoRecord) ELSE Load(store)

get_contract_version(store) == Load(store)

\* variant: the two arguments land in each other's field
set_contract_version_swapped(store, name, version) ==
  Save([contract |-> version, version |-> name])

\* builds the record from the two strings as given and saves it; the result
\* is the storage after the call (the call itself always returns Ok(()))
set_contract_version(store, name, version) ==
  Save([contract |-> name, version |-> version])

\* variant: the name is compared with itself
NameDiffersNever(name, contract) == name # name

\* name != stored.contract
NameDiffers(name, contract) == name # contract

\* variant: the two version strings compared as text
StorageVersionNewerLexical(storage_version, version) ==
  StrCmp(VersionToString(storage_version), VersionToString(version)) > 0

\* variant: >= in place of >
StorageVersionNewerOrEqual(storage_version, version) ==
  VersionCmp(storage_version, version) >= 0

\* storage_version > version
StorageVersionNewer(storage_version, version) == VersionCmp(storage_version, version) > 0

\* variant: cmp_precedence in place of the derived order
StorageVersionOlderPrecedence(storage_version, version) ==
  PrecedenceCmp(storage_version, version) < 0

\* variant: <= in place of <
StorageVersionOlderOrEqual(storage_version, version) ==
  VersionCmp(storage_version, version) <= 0

\* storage_version < version
StorageVersionOlder(storage_version, version) == VersionCmp(storage_version, version) < 0

Outcome(store, res, saved) == [store |-> store, res |-> res, saved |-> saved]

\* variant: the new record is saved before the versions are compared
ensure_save_first(storage, name, new_version) ==
  LET version == Parse(new_version) IN
  IF ~version.ok THEN Outcome(storage, from_semver(version.err), FALSE) ELSE
  LET stored == get_contract_version(storage) IN
  IF stored.kind # "Ok" THEN Outcome(storage, stored, FALSE) ELSE
  LET storage_version == Parse(stored.rec.version) IN
  IF ~storage_version.ok THEN Outcome(storage, from_semver(storage_version.err), FALSE) ELSE
  IF NameDiffers(name, stored.rec.contract)
  THEN Outcome(storage, NameMismatchErr(stored.rec.contract, name), FALSE) ELSE
  LET saved == set_contract_version(storage, name, new_version) IN
  IF StorageVersionNewer(storage_version.v, version.v)
  THEN Outcome(saved, DowngradeErr(stored.rec.version, new_version), TRUE)
  ELSE Outcome(saved, Ok(storage_version.v, NoRecord), TRUE)

\* variant: the record is loaded before the new version is parsed
ensure_load_first(storage, name, new_version) ==
  LET stored == get_contract_version(storage) IN
  IF stored.kind # "Ok" THEN Outcome(storage, stored, FALSE) ELSE
  LET version == Parse(new_version) IN
  IF ~version.ok THEN Outcome(storage, from_semver(version.err), FALSE) ELSE
  LET storage_version == Parse(stored.rec.version) IN
  IF ~storage_version.ok THEN Outcome(storage, from_semver(storage_version.err), FALSE) ELSE
  IF NameDiffers(name, stored.rec.contract)
  THEN Outcome(storage, NameMismatchErr(stored.rec.contract, name), FALSE) ELSE
  IF StorageVersionNewer(storage_version.v, version.v)
  THEN Outcome(storage, DowngradeErr(stored.rec.version, new_version), FALSE) ELSE
  IF StorageVersionOlder(storage_version.v, version.v)
  THEN Outcome(set_contract_version(storage, name, new_version),
               Ok(storage_version.v, NoRecord), TRUE)
  ELSE Outcome(storage, Ok(storage_version.v, NoRecord), FALSE)

\* variant: the names are compared before the stored version is parsed
ensure_name_first(storage, name, new_version) ==
  LET version == Parse(new_version) IN
  IF ~version.ok THEN Outcome(storage, from_semver(version.err), FALSE) ELSE
  LET stored == get_contract_version(storage) IN
  IF stored.kind # "Ok" THEN Outcome(storage, stored, FALSE) ELSE
  IF NameDiffers(name, stored.rec.contract)
  THEN Outcome(storage, NameMismatchErr(stored.rec.contract, name), FALSE) ELSE
  LET storage_version == Parse(stored.rec.version) IN
  IF ~storage_version.ok THEN Outcome(storage, from_semver(storage_version.err), FALSE) ELSE
  IF StorageVersionNewer(storage_version.v, version.v)
  THEN Outcome(storage, DowngradeErr(stored.rec.version, new_version), FALSE) ELSE
  IF StorageVersionOlder(storage_version.v, version.v)
  THEN Outcome(set_contract_version(storage, name, new_version),
               Ok(storage_version.v, NoRecord), TRUE)
  ELSE Outcome(storage, Ok(storage_version.v, NoRecord), FALSE)

\* parse the new version, load the record, parse its version, compare the
\* names, compare the versions, save only when the stored version is older;
\* the result carries the storage after the call and whether a save was made
ensure_from_older_version(storage, name, new_version) ==
  LET version == Parse(new_version) IN
  IF ~version.ok THEN Outcome(storage, from_semver(version.err), FALSE) ELSE
  LET stored == get_contract_version(storage) IN
  IF stored.kind # "Ok" THEN Outcome(storage, stored, FALSE) ELSE
  LET storage_version == Parse(stored.rec.version) IN
  IF ~storage_version.ok THEN Outcome(storage, from_semver(storage_version.err), FALSE) ELSE
  IF NameDiffers(name, stored.rec.contract)
  THEN Outcome(storage, NameMismatchErr(stored.rec.contract, name), FALSE) ELSE
  IF StorageVersionNewer(storage_version.v, version.v)
  THEN Outcome(storage, DowngradeErr(stored.rec.version, new_version), FALSE) ELSE
  IF StorageVersionOlder(storage_version.v, version.v)
  THEN Outcome(set_contract_version(storage, name, new_version),
               Ok(storage_version.v, NoRecord), TRUE)
  ELSE Outcome(storage, Ok(storage_version.v, NoRecord), FALSE)

\* ------------------------------------------------------------------------
\* Inputs
\* ------------------------------------------------------------------------
Names == {"demo", "cw20-base"}

Cores ==
  {Digits(ma) \o <<".">> \o Digits(mi) \o <<".">> \o Digits(pa) :
     ma \in {0}, mi \in {9, 10}, pa \in 0..MaxPatch}

Suffixes == {<<>>, <<"-", "a">>, <<"+", "a">>}

\* well-formed strings with numeric identifiers in the suffix
NumericSuffixStrs ==
  {<<"0", ".", "9", ".", "0", "+", "1">>,
   <<"0", ".", "9", ".", "0", "+", "0", "1">>}

\* strings that are not semantic versions
MalformedStrs ==
  {<<>>,
   <<"0", ".", "a", ".", "7">>,
   <<"0", ".", "9">>,
   <<"0", "1", ".", "9", ".", "0">>}

VersionStrs == {c \o s : c \in Cores, s \in Suffixes} \cup NumericSuffixStrs \cup MalformedStrs

\* ------------------------------------------------------------------------
\* State
\* ------------------------------------------------------------------------
VARIABLES
  store,    \* the slot "contract_info" of the storage instance
  written,  \* history: set_contract_version has been called on this storage
  last      \* the last call: operation, arguments, storage before it, result

vars == <<store, written, last>>

Call(op, name, version, before, res, saved) ==
  [op |-> op, name |-> name, version |-> version, before |-> before,
   res |-> res, saved |-> saved]

\* MockStorage::new(): nothing stored, nothing called yet
Init ==
  /\ store = EmptySlot
  /\ written = FALSE
  /\ last = Call("none", "", <<>>, EmptySlot, Ok(NoVersion, NoRecord), FALSE)

\* a call of get_contract_version
Read ==
  /\ last' = Call("read", "", <<>>, store, get_contract_version(store), FALSE)
  /\ UNCHANGED <<store, written>>

\* a call of set_contract_version(store, n, v)
Write(n, v) ==
  /\ store' = set_contract_version(store, n, v)
  /\ written' = TRUE
  /\ last' = Call("write", n, v, store, Ok(NoVersion, NoRecord), TRUE)

\* a call of ensure_from_older_version(store, n, v)
CheckAndAdvance(n, v) ==
  LET out == ensure_from_older_version(store, n, v)
  IN /\ store' = out.store
     /\ last' = Call("check", n, v, store, out.res, out.saved)
     /\ UNCHANGED written

Next ==
  \/ Read
  \/ \E n \in Names, v \in VersionStrs : Write(n, v)
  \/ \E n \in Names, v \in VersionStrs : CheckAndAdvance(n, v)

Spec == Init /\ [][Next]_vars

\* ------------------------------------------------------------------------
\* Vocabulary of the properties
\* ------------------------------------------------------------------------
Present(s) == s # EmptySlot

RecordOf(s) == [contract |-> FieldOf(s, "contract"), version |-> FieldOf(s, "version")]

WellFormed(text) == Parse(text).ok

IsCheck == last.op = "check"

Failed == last.res.kind # "Ok"

TypeOK ==
  /\ written \in BOOLEAN
  /\ last.op \in {"none", "read", "write", "check"}
  /\ last.res.kind \in {"Ok", "NotFound", "InvalidVersion", "NameMismatch", "DowngradeRejected"}
  /\ Present(store) => /\ RecordOf(store).contract \in Names
                       /\ RecordOf(store).version \in VersionStrs

BeforeRec == RecordOf(last.before)

StoredV == Parse(BeforeRec.version).v

NewV == Parse(last.version).v

\* a check on a stored record, both version strings well-formed
CheckOnVersions ==
  /\ IsCheck
  /\ Present(last.before)
  /\ WellFormed(BeforeRec.version)
  /\ WellFormed(last.version)

SameName == BeforeRec.contract = last.name

Advanced ==
  /\ last.res.kind = "Ok"
  /\ last.res.ver = StoredV
  /\ VersionToString(last.res.ver) = BeforeRec.version
  /\ Present(store)
  /\ RecordOf(store) = [contract |-> last.name, version |-> last.version]

C2_FailureKeepsStorage ==
  (IsCheck /\ Failed) =>
     /\ last.res.kind \in {"NotFound", "InvalidVersion", "NameMismatch", "DowngradeRejected"}
     /\ store = last.before
     /\ ~last.saved
     /\ Present(last.before) => RecordOf(store) = BeforeRec

\* a rejected downgrade of a stored record
C2_Witness ==
  /\ IsCheck /\ Failed
  /\ last.res.kind = "DowngradeRejected"
  /\ Present(last.before)
  /\ last.version # BeforeRec.version
  /\ store = last.before

\* ------------------------------------------------------------------------
\* C3
\* ------------------------------------------------------------------------
\* C3: a check of (n, v2) on a stored (n, v1) with v1 > v2 fails with
\* DowngradeRejected carrying the stored and the new version string, and
\* saves nothing.  Stated for the order of Version, which contains every
\* pair that is ordered by semantic-version precedence.
C3_DowngradeRejected ==
  (CheckOnVersions /\ SameName
     /\ (VersionCmp(StoredV, NewV) > 0 \/ PrecedenceCmp(StoredV, NewV) > 0)) =>
     /\ last.res.kind = "DowngradeRejected"
     /\ last.res.versions = [stored |-> BeforeRec.version, new |-> last.version]
     /\ ~last.saved
     /\ store = last.before

\* a downgrade from minor version 10 to minor version 9, rejected
C3_Witness ==
  /\ CheckOnVersions /\ SameName
  /\ StoredV.minor = 10 /\ NewV.minor = 9
  /\ PrecedenceCmp(StoredV, NewV) > 0
  /\ last.res.kind = "DowngradeRejected"
  /\ last.res.versions.stored = BeforeRec.version
  /\ last.res.versions.new = last.version

\* ------------------------------------------------------------------------
\* C4
\* ------------------------------------------------------------------------
\* a check that finds the stored version equal to the new one
C4_EqualIsNoOp ==
  (CheckOnVersions /\ SameName /\ StoredV = NewV) =>
     /\ last.res.kind = "Ok"
     /\ last.res.ver = NewV
     /\ ~last.saved
     /\ store = last.before

\* the same successful check made a second time
C4_RepeatStep ==
  (/\ IsCheck /\ ~Failed
   /\ last'.op = "check" /\ last'.name = last.name /\ last'.version = last.version) =>
     /\ last'.res.kind = "Ok"
     /\ last'.res.ver = Parse(last.version).v
     /\ ~last'.saved
     /\ store' = store

\* C4: a check whose new version equals the stored one (the same major,
\* minor, patch, pre-release and build metadata; names matching) succeeds,
\* returns that version and saves nothing; hence a successful check made
\* again succeeds, returns the new version and changes nothing.
C4_Idempotent == [] C4_EqualIsNoOp /\ [][C4_RepeatStep]_vars

\* a successful check of a version that was already stored, nothing saved
C4_Witness ==
  /\ CheckOnVersions /\ SameName
  /\ StoredV = NewV
  /\ last.res.kind = "Ok"
  /\ ~last.saved
  /\ store = last.before

\* ------------------------------------------------------------------------
\* C5
\* ------------------------------------------------------------------------
\* C5: a check under a name that differs from the stored one fails with
\* NameMismatch carrying the stored and the expected name, whether the
\* stored version is older than, equal to or newer than the new one.
C5_NameMismatch ==
  (CheckOnVersions /\ ~SameName) =>
     /\ last.res.kind = "NameMismatch"
     /\ last.res.names = [stored |-> BeforeRec.contract, expected |-> last.name]
     /\ store = last.before

\* a name mismatch on what would otherwise be an upgrade
C5_Witness ==
  /\ CheckOnVersions /\ ~SameName
  /\ VersionCmp(StoredV, NewV) < 0
  /\ last.res.kind = "NameMismatch"
  /\ last.res.names.stored = "demo"
  /\ last.res.names.expected = "cw20-base"

\* ------------------------------------------------------------------------
\* C6
\* ------------------------------------------------------------------------
\* C6: a check with a malformed new version fails with InvalidVersion,
\* carrying the parser's diagnostic for that string, in every storage
\* state: empty storage and a mismatching name included.
C6_MalformedNewVersion ==
  (IsCheck /\ ~WellFormed(last.version)) =>
     /\ last.res.kind = "InvalidVersion"
     /\ last.res.diag = Parse(last.version).err

\* "0.a.7" checked against empty storage: unexpected character 'a'
C6_Witness ==
  /\ IsCheck
  /\ ~Present(last.before)
  /\ last.version = <<"0", ".", "a", ".", "7">>
  /\ last.res.kind = "InvalidVersion"
  /\ last.res.diag.kind = "UnexpectedChar"
  /\ last.res.diag.ch = "a"

\* ------------------------------------------------------------------------
\* C7
\* ------------------------------------------------------------------------
C7_State ==
  /\ (get_contract_version(store).kind = "NotFound") <=> ~written
  /\ last.op = "read" =>
       /\ (last.res.kind = "NotFound") <=> ~written
       /\ last.res.kind \in {"Ok", "NotFound"}
  /\ last.op = "write" =>
       /\ last.res.kind = "Ok"
       /\ Present(store)
       /\ RecordOf(store) = [contract |-> last.name, version |-> last.version]

C7_ReadAfterWrite ==
  (last.op = "write" /\ last'.op = "read") =>
     /\ last'.res.kind = "Ok"
     /\ last'.res.rec = [contract |-> last.name, version |-> last.version]

\* C7: a read fails with NotFound exactly when nothing was ever written; a
\* write succeeds on empty and on filled storage, validates neither string,
\* and the read that follows it returns the pair just written.
C7_ReadWrite == [] C7_State /\ [][C7_ReadAfterWrite]_vars

\* a read that returns a record whose version is not a semantic version,
\* written over an earlier record
C7_Witness ==
  /\ last.op = "read"
  /\ last.res.kind = "Ok"
  /\ ~WellFormed(last.res.rec.version)
  /\ last.res.rec = RecordOf(store)

\* ------------------------------------------------------------------------
\* C8
\* ------------------------------------------------------------------------
\* what every check step on a stored record keeps
C8_Monotone ==
  /\ Present(store')
  /\ RecordOf(store').contract = RecordOf(store).contract
  /\ \/ store' = store
     \/ /\ WellFormed(RecordOf(store).version)
        /\ WellFormed(RecordOf(store').version)
        /\ PrecedenceCmp(Parse(RecordOf(store').version).v,
                         Parse(RecordOf(store).version).v) >= 0
        /\ VersionCmp(Parse(RecordOf(store').version).v,
                      Parse(RecordOf(store).version).v) > 0

C8_StepAsStated ==
  (last'.op = "check" /\ Present(store)) =>
     /\ C8_Monotone
     /\ last'.saved =>
          PrecedenceCmp(Parse(last'.version).v, Parse(RecordOf(store).version).v) > 0

C8_Step ==
  (last'.op = "check" /\ Present(store)) =>
     /\ C8_Monotone
     /\ last'.saved <=> store' # store
     /\ last'.saved =>
          /\ RecordOf(store').version = last'.version
          /\ VersionCmp(Parse(last'.version).v, Parse(RecordOf(store).version).v) > 0

C9_State ==
  /\ written => Present(store)
  /\ (IsCheck /\ ~Present(last.before) /\ WellFormed(last.version)) =>
       /\ last.res.kind = "NotFound"
       /\ ~Present(store)

C9_Step ==
  /\ Present(store) => Present(store')
  /\ (~Present(store) /\ Present(store')) => last'.op = "write"
  /\ (~Present(store) /\ last'.op = "check") => ~Present(store')

\* C9: the record is absent or present and never goes from present to
\* absent; a check never creates it (on empty storage a well-formed check
\* fails with NotFound and the storage stays empty); only a write takes
\* the storage from absent to present.
C9_Lifecycle == [] C9_State /\ [][C9_Step]_vars

\* a well-formed check on empty storage: NotFound, storage still empty
C9_Witness ==
  /\ IsCheck
  /\ ~Present(last.before)
  /\ WellFormed(last.version)
  /\ last.res.kind = "NotFound"
  /\ ~Present(store)

\* ------------------------------------------------------------------------
\* C10
\* ------------------------------------------------------------------------
\* C10: a check reports the first failing step in the order malformed new
\* version, absent record, malformed stored version, name mismatch,
\* downgrade; so a stored malformed version wins over a mismatching name
\* and a mismatching name wins over a newer stored version.
C10_ErrorOrder ==
  IsCheck =>
    IF ~WellFormed(last.version)
    THEN last.res.kind = "InvalidVersion" /\ last.res.diag = Parse(last.version).err
    ELSE IF ~Present(last.before)
    THEN last.res.kind = "NotFound"
    ELSE IF ~WellFormed(BeforeRec.version)
    THEN last.res.kind = "InvalidVersion" /\ last.res.diag = Parse(BeforeRec.version).err
    ELSE IF ~SameName
    THEN last.res.kind = "NameMismatch"
    ELSE IF VersionCmp(StoredV, NewV) > 0
    THEN last.res.kind = "DowngradeRejected"
    ELSE last.res.kind = "Ok"

\* a stored version that is not a semantic version, checked under another
\* name with a well-formed new version: InvalidVersion, not NameMismatch
C10_Witness ==
  /\ IsCheck
  /\ Present(last.before)
  /\ ~WellFormed(BeforeRec.version)
  /\ WellFormed(last.version)
  /\ ~SameName
  /\ last.res.kind = "InvalidVersion"
  /\ last.res.diag = Parse(BeforeRec.version).err

====
